---------------------------- MODULE Spec2Model ----------------------------
(***************************************************************************)
(* A model of mcp.py, the "Advanced File & API Server": seven tools that   *)
(* each return a result dictionary.                                        *)
(*                                                                         *)
(*   Spec      one caller: tool invocations one after another, with I/O    *)
(*             faults injected at every I/O point of a handler             *)
(*   FileSpec  one caller, the four file tools, no fault injected, with    *)
(*             the reference map from file to content kept beside it       *)
(*   ConcSpec  several callers: the file tools' I/O steps interleaved      *)
(*   JsonSpec  _count_nested_levels applied to every bounded JSON value    *)
(*                                                                         *)
(* A text is a sequence of characters; the characters that matter to the   *)
(* text-mode file I/O are kept apart: "LF" and "CR" (newline translation)  *)
(* and "SUR", a lone surrogate, which utf-8 cannot encode; "x" stands for  *)
(* every other character.                                                  *)
(***************************************************************************)
EXTENDS Integers, Sequences, FiniteSets, TLC

VARIABLES
    ws,       \* the workspace directory: file path -> bytes on disk, or Absent
    pc,       \* Spec: "idle" between invocations, else the step of an async tool
    call,     \* Spec: the invocation running or last completed
    result,   \* Spec: the dictionary the last invocation returned
    outcome,  \* Spec: "none" | "pending" | "returned" | "raised"
    ws0,      \* Spec, history: the workspace when the last invocation began
    ref,      \* FileSpec, history: the reference map when the last invocation began
    prev,     \* Spec, history: the first result when the last invocation repeats it
    ext,      \* Spec: bookkeeping of an external lookup (attempts, response)
    cpc,      \* ConcSpec: each caller's position in its handler
    ccall,    \* ConcSpec: each caller's invocation
    cres,     \* ConcSpec: each caller's returned dictionary
    cbuf,     \* ConcSpec: each caller's local `content` in read_file
    cfd,      \* ConcSpec: whether the file a caller opened is still in the directory
    cws0,     \* ConcSpec, history: the workspace before any caller ran
    jv,       \* JsonSpec: the parsed JSON value
    jpc,      \* JsonSpec: "start" | "done"
    jres      \* JsonSpec: the nested_levels counted for jv

seqVars  == <<pc, call, result, outcome, ws0, ref, prev, ext>>
concVars == <<cpc, ccall, cres, cbuf, cfd, cws0>>
jsonVars == <<jv, jpc, jres>>
vars     == <<ws, seqVars, concVars, jsonVars>>

(***************************************************************************)
(* Bounds.                                                                 *)
(***************************************************************************)
MaxLen   == 1   \* longest content passed to create_file
NProcs   == 2   \* concurrent callers
MaxNodes == 4   \* most nodes (scalars and containers) of a JSON value

(***************************************************************************)
(* Texts, paths and the workspace directory.                               *)
(***************************************************************************)
Chars == {"x", "CR", "SUR"}

Contents == UNION {[1..n -> Chars] : n \in 0..MaxLen}

\* No file of that name: distinct from every text, the empty one included.
Absent == <<"ABSENT">>

\* The regular files the modelled names can reach, and the directory itself.
FilePaths == {"a", "b"}

WorkDir == "."

Filenames == {"a", "b", "./a", "."}

\* WORK_DIR / filename: pathlib drops "." components, so "./a" and "a" name
\* one file, and "." names the workspace directory.
Resolve(filename) ==
    CASE filename = "./a" -> "a"
      [] OTHER -> filename

\* WORK_DIR.mkdir(exist_ok=True): the directory exists, without files.
EmptyWorkspace == [p \in FilePaths |-> Absent]

PathExistsDirOnly(w, p) == p = WorkDir

\* Path.exists(): the directory always exists, a file when it is on disk.
PathExists(w, p) == p = WorkDir \/ w[p] # Absent

\* os.linesep of the platform (POSIX): what text mode writes for "\n".
LineSep == <<"LF">>

\* encoding='utf-8': a lone surrogate cannot be encoded.
Encodable(text) == \A i \in 1..Len(text) : text[i] # "SUR"

RECURSIVE WriteTranslate(_)
\* Text-mode write (newline=None): each "\n" becomes os.linesep.
WriteTranslate(text) ==
    IF text = <<>> THEN <<>>
    ELSE (IF Head(text) = "LF" THEN LineSep ELSE <<Head(text)>>)
             \o WriteTranslate(Tail(text))

RECURSIVE ReadTranslate(_)
\* Text-mode read (newline=None): "\r\n" and a lone "\r" become "\n".
ReadTranslate(bytes) ==
    IF bytes = <<>> THEN <<>>
    ELSE IF Head(bytes) = "CR"
         THEN IF Len(bytes) > 1 /\ bytes[2] = "LF"
              THEN <<"LF">> \o ReadTranslate(SubSeq(bytes, 3, Len(bytes)))
              ELSE <<"LF">> \o ReadTranslate(Tail(bytes))
         ELSE <<Head(bytes)>> \o ReadTranslate(Tail(bytes))

\* open(file_path, 'w'): creates the file, or truncates it.
OpenWrite(w, p) == [w EXCEPT ![p] = <<>>]

\* f.write(content) and the close at the end of the with block: the encoded
\* text goes to the file from offset 0; what the file held beyond it stays
\* (nothing, when this handle's own open truncated it last).
WriteText(w, p, content) ==
    LET bytes == WriteTranslate(content) IN
    [w EXCEPT ![p] = bytes \o SubSeq(@, Len(bytes) + 1, Len(@))]

UnlinkNothing(w, p) == w

\* file_path.unlink()
Unlink(w, p) == [w EXCEPT ![p] = Absent]

\* The entries of WORK_DIR.iterdir() that are files.
FilesIn(w) == {p \in FilePaths : w[p] # Absent}

(***************************************************************************)
(* Handler bodies: a body ends by returning a dictionary or by raising.    *)
(***************************************************************************)
NoResult == [none |-> TRUE]

Ret(w, r) == [ws |-> w, result |-> r, outcome |-> "returned", exc |-> ""]

Raise(w, e) == [ws |-> w, result |-> NoResult, outcome |-> "raised", exc |-> e]

\* The classes the handlers' bodies raise; each is a subclass of Exception.
ExceptionClasses ==
    {"OSError", "FileNotFoundError", "IsADirectoryError", "UnicodeEncodeError",
     "RecursionError", "JSONDecodeError", "HTTPError", "AttributeError"}

IsOSErrorOnly(e) == e \in {"OSError", "FileNotFoundError", "IsADirectoryError"}

\* `except Exception as e`: which raised classes the clause catches.
IsException(e) == e \in ExceptionClasses

\* try: body / except Exception: return handled
TryExcept(body, handled) ==
    IF body.outcome = "raised" /\ IsException(body.exc)
    THEN Ret(body.ws, handled)
    ELSE body

(***************************************************************************)
(* The file tools.  `fault` names the I/O point at which the environment   *)
(* injects an OSError ("none": nowhere).                                   *)
(***************************************************************************)
CreateFaults == {"none", "exists", "open", "write"}
ReadFaults   == {"none", "exists", "open", "stat"}
NoFaults     == {"none"}
ListFaults   == {"none", "iterdir"}
DeleteFaults == {"none", "exists", "unlink"}

\* The dictionaries of the four `except Exception` clauses.
CreateFailed == [success |-> FALSE, error |-> "Failed to create file"]

ReadFailed == [success |-> FALSE, error |-> "Failed to read file"]

ListFailed == [success |-> FALSE, error |-> "Failed to list files"]

DeleteFailed == [success |-> FALSE, error |-> "Failed to delete file"]

\* The dictionaries of the normal returns.
AlreadyExists(p) == [success |-> FALSE, error |-> "already exists", path |-> p]

Created(p, content) ==
    [success |-> TRUE, path |-> p, message |-> "created", size |-> Len(content)]

DoesNotExist == [success |-> FALSE, error |-> "does not exist"]

ReadOk(filename, content) ==
    [filename |-> filename, content |-> content, success |-> TRUE,
     size |-> Len(content), modified |-> "mtime"]

Deleted == [success |-> TRUE, message |-> "deleted"]

CreateFileBody(w, filename, content, fault) ==
    LET p == Resolve(filename) IN
    IF fault = "exists" THEN Raise(w, "OSError")
    ELSE IF PathExists(w, p)
    THEN Ret(w, AlreadyExists(p))
    ELSE IF fault = "open" THEN Raise(w, "OSError")
    ELSE IF fault = "write" THEN Raise(OpenWrite(w, p), "OSError")
    ELSE IF ~Encodable(content) THEN Raise(OpenWrite(w, p), "UnicodeEncodeError")
    ELSE Ret(WriteText(OpenWrite(w, p), p, content), Created(p, content))

CreateFile(w, filename, content, fault) ==
    TryExcept(CreateFileBody(w, filename, content, fault), CreateFailed)

ReadFileBody(w, filename, fault) ==
    LET p == Resolve(filename) IN
    IF fault = "exists" THEN Raise(w, "OSError")
    ELSE IF ~PathExists(w, p)
    THEN Ret(w, DoesNotExist)
    ELSE IF fault = "open" THEN Raise(w, "OSError")
    ELSE IF p = WorkDir THEN Raise(w, "IsADirectoryError")
    ELSE IF w[p] = Absent THEN Raise(w, "FileNotFoundError")
    ELSE IF fault = "stat" THEN Raise(w, "OSError")
    ELSE Ret(w, ReadOk(filename, ReadTranslate(w[p])))

ReadFile(w, filename, fault) ==
    TryExcept(ReadFileBody(w, filename, fault), ReadFailed)

ListFilesBody(w, fault) ==
    IF fault = "iterdir" THEN Raise(w, "OSError")
    ELSE LET files == {[path |-> p, size |-> Len(w[p]), modified |-> "mtime",
                        name |-> p] : p \in FilesIn(w)} IN
         Ret(w, [success |-> TRUE, files |-> files,
                 count |-> Cardinality(files), workspace |-> WorkDir])

ListFiles(w, fault) ==
    TryExcept(ListFilesBody(w, fault), ListFailed)

DeleteFileBody(w, filename, fault) ==
    LET p == Resolve(filename) IN
    IF fault = "exists" THEN Raise(w, "OSError")
    ELSE IF ~PathExists(w, p)
    THEN Ret(w, DoesNotExist)
    ELSE IF fault = "unlink" THEN Raise(w, "OSError")
    ELSE IF p = WorkDir THEN Raise(w, "IsADirectoryError")
    ELSE IF w[p] = Absent THEN Raise(w, "FileNotFoundError")
    ELSE Ret(Unlink(w, p), Deleted)

DeleteFile(w, filename, fault) ==
    TryExcept(DeleteFileBody(w, filename, fault), DeleteFailed)

(***************************************************************************)
(* JSON values and process_json_data.  A value is a scalar or a container  *)
(* (dict or list) with its member values in order; a dict's i-th member    *)
(* sits under its i-th key.                                                *)
(***************************************************************************)
Scalar == [kind |-> "scalar", items |-> <<>>]

Container(k, members) == [kind |-> k, items |-> members]

Max(S) == CHOOSE m \in S : \A n \in S : n <= m

None == "None"

RECURSIVE CountNestedLevelsEmptyCounts(_, _)
CountNestedLevelsEmptyCounts(obj, level) ==
    IF obj.kind \in {"dict", "list"}
    THEN IF obj.items = <<>> THEN level + 1
         ELSE Max({CountNestedLevelsEmptyCounts(obj.items[i], level + 1) :
                      i \in 1..Len(obj.items)})
    ELSE level

RECURSIVE CountNestedLevels(_, _)
\* _count_nested_levels(obj, level=0)
CountNestedLevels(obj, level) ==
    IF obj.kind = "dict"
    THEN IF obj.items = <<>> THEN level
         ELSE Max({CountNestedLevels(obj.items[i], level + 1) :
                      i \in 1..Len(obj.items)})
    ELSE IF obj.kind = "list"
    THEN IF obj.items = <<>> THEN level
         ELSE Max({CountNestedLevels(obj.items[i], level + 1) :
                      i \in 1..Len(obj.items)})
    ELSE level

\* type(data).__name__
TypeName(data) == IF data.kind = "scalar" THEN "int" ELSE data.kind

\* The analysis dictionary of process_json_data.
Analysis(data, json_string) ==
    [size          |-> Len(json_string),
     type          |-> TypeName(data),
     keys          |-> IF data.kind = "dict"
                       THEN [i \in 1..Len(data.items) |-> i] ELSE None,
     length        |-> IF data.kind \in {"list", "dict"}
                       THEN Len(data.items) ELSE None,
     nested_levels |-> CountNestedLevels(data, 0)]

\* A document nested deeper than the interpreter's recursion limit.
TooDeep == "[[[[...]]]]"

JsonStrings == {"1", "[]", "{}", "[[]]", "{\"a\":[1]}", "[1,[2,{}]]", "{bad", TooDeep}

\* json.loads(json_string) on the documents above: the value, or what it raises.
JsonLoads(s) ==
    CASE s = "1"           -> [exc |-> "", data |-> Scalar]
      [] s = "[]"          -> [exc |-> "", data |-> Container("list", <<>>)]
      [] s = "{}"          -> [exc |-> "", data |-> Container("dict", <<>>)]
      [] s = "[[]]"        -> [exc |-> "",
                               data |-> Container("list", <<Container("list", <<>>)>>)]
      [] s = "{\"a\":[1]}" -> [exc |-> "",
                               data |-> Container("dict", <<Container("list", <<Scalar>>)>>)]
      [] s = "[1,[2,{}]]"  -> [exc |-> "",
                               data |-> Container("list",
                                   <<Scalar, Container("list",
                                       <<Scalar, Container("dict", <<>>)>>)>>)]
      [] s = TooDeep       -> [exc |-> "RecursionError", data |-> Scalar]
      [] OTHER             -> [exc |-> "JSONDecodeError", data |-> Scalar]

ProcessJsonBody(w, json_string) ==
    LET parsed == JsonLoads(json_string) IN
    IF parsed.exc # "" THEN Raise(w, parsed.exc)
    ELSE Ret(w,
             [success |-> TRUE, data |-> parsed.data,
              analysis |-> Analysis(parsed.data, json_string), valid |-> TRUE])

\* The two except clauses, in order: json.JSONDecodeError, then Exception.
ProcessJsonData(w, json_string) ==
    LET body == ProcessJsonBody(w, json_string) IN
    IF body.outcome = "raised" /\ body.exc = "JSONDecodeError"
    THEN Ret(w, [success |-> FALSE, error |-> "Invalid JSON", valid |-> FALSE])
    ELSE TryExcept(body, [success |-> FALSE, error |-> "Processing error"])

RECURSIVE TreesOfSize(_)
RECURSIVE ForestsOfSize(_)
\* The JSON values of exactly n nodes.
TreesOfSize(n) ==
    IF n = 1
    THEN {Scalar, Container("dict", <<>>), Container("list", <<>>)}
    ELSE {Container(k, f) : k \in {"dict", "list"}, f \in ForestsOfSize(n - 1)}

\* The member sequences of n nodes in all.
ForestsOfSize(n) ==
    IF n = 0 THEN {<<>>}
    ELSE UNION {{<<t>> \o f : t \in TreesOfSize(k), f \in ForestsOfSize(n - k)} :
                   k \in 1..n}

JsonValues == UNION {TreesOfSize(n) : n \in 1..MaxNodes}

(***************************************************************************)
(* The external lookups: get_weather and get_random_quote.                 *)
(***************************************************************************)
HttpOk == 200

\* 401 is what the weather service answers to appid "demo_key".
HttpStatuses == {HttpOk, 401, 503}

\* What the service sends with status 200: a body of the expected shape, one
\* that response.json() rejects, one whose JSON value has another shape.  The
\* handlers do not read the body of any other status.
Bodies(status) == IF status = HttpOk THEN {"ok", "not_json", "bad_shape"} ELSE {""}

Cities == {"Oslo"}

ExternalTools == {"get_weather", "get_random_quote"}

FallbackQuotes ==
    {[quote |-> "The only way to do great work is to love what you do.",
      author |-> "Steve Jobs"],
     [quote |-> "Innovation distinguishes between a leader and a follower.",
      author |-> "Steve Jobs"],
     [quote |-> "Life is what happens to you while you're busy making other plans.",
      author |-> "John Lennon"]}

\* The dictionary built from a 200 response.
LiveResult(tool) ==
    IF tool = "get_weather"
    THEN [success |-> TRUE, city |-> "name", country |-> "country",
          temperature |-> "temp", description |-> "description",
          humidity |-> "humidity", pressure |-> "pressure"]
    ELSE [success |-> TRUE, quote |-> "content", author |-> "author",
          tags |-> "tags"]

ApiErrorNoError(tool, status) == [success |-> FALSE, status |-> status]

\* The dictionary returned for a response whose status is not 200.
ApiError(tool, status) == [success |-> FALSE, error |-> status]

FallbackResultNoNote(tool, city, selected) ==
    IF tool = "get_weather"
    THEN [success |-> TRUE, city |-> city, temperature |-> 22,
          description |-> "partly cloudy", humidity |-> 65, pressure |-> 1013]
    ELSE [success |-> TRUE, quote |-> selected.quote, author |-> selected.author]

\* The dictionary the except clause returns: mock weather, or a stock quote.
FallbackResult(tool, city, selected) ==
    IF tool = "get_weather"
    THEN [success |-> TRUE, city |-> city, temperature |-> 22,
          description |-> "partly cloudy", humidity |-> 65, pressure |-> 1013,
          note |-> "Demo data - API key needed for real data"]
    ELSE [success |-> TRUE, quote |-> selected.quote, author |-> selected.author,
          note |-> "Fallback quote - API unavailable"]

OnLiveFaultRetry == "request"

\* Where an exception raised inside the try block leads: the except clause.
OnLiveFault == "fallback"

(***************************************************************************)
(* Spec: one caller.                                                       *)
(***************************************************************************)
NoCall == [content |-> <<>>, fault |-> "none", tool |-> "none", arg |-> ""]

NoExt == [exc |-> FALSE, body |-> "", status |-> 0, live |-> 0, fb |-> 0,
          via |-> "none"]

NoPrev == [success |-> FALSE, error |-> FALSE, status |-> 0, rep |-> FALSE]

SyncTools == {"create_file", "read_file", "list_files", "delete_file",
              "process_json_data"}

\* The framework's dispatch of a synchronous tool to its function.
RunTool(w, c) ==
    CASE c.tool = "create_file" -> CreateFile(w, c.arg, c.content, c.fault)
      [] c.tool = "read_file"   -> ReadFile(w, c.arg, c.fault)
      [] c.tool = "list_files"  -> ListFiles(w, c.fault)
      [] c.tool = "delete_file" -> DeleteFile(w, c.arg, c.fault)
      [] c.tool = "process_json_data" -> ProcessJsonData(w, c.arg)

\* The reference map after an invocation: a successful create_file binds the
\* file to the content passed, a successful delete_file unbinds it.
RefAfter(m, c, r, o) ==
    IF o = "returned" /\ "success" \in DOMAIN r /\ r.success
    THEN CASE c.tool = "create_file" -> [m EXCEPT ![Resolve(c.arg)] = c.content]
           [] c.tool = "delete_file" -> [m EXCEPT ![Resolve(c.arg)] = Absent]
           [] OTHER -> m
    ELSE m

RefNow == RefAfter(ref, call, result, outcome)

Faulted == call.fault # "none" \/ ext.exc

\* What a repeated invocation remembers of the first one.
PrevOf(rep) ==
    IF rep
    THEN [success |-> result.success, error |-> "error" \in DOMAIN result,
          status |-> ext.status, rep |-> TRUE]
    ELSE NoPrev

Begin(c, rep, track) ==
    /\ pc = "idle"
    /\ call' = c
    /\ ws0' = ws
    /\ ref' = IF track THEN RefNow ELSE EmptyWorkspace
    /\ prev' = PrevOf(rep)
    /\ UNCHANGED <<concVars, jsonVars>>

\* A synchronous tool runs to completion in one step.
Run(c, rep, track) ==
    LET r == RunTool(ws, c) IN
    /\ Begin(c, rep, track)
    /\ ws' = r.ws
    /\ result' = r.result
    /\ outcome' = r.outcome
    /\ pc' = "idle"
    /\ ext' = NoExt

\* An async tool starts; its awaits are separate steps.
Start(c, rep) ==
    /\ Begin(c, rep, FALSE)
    /\ pc' = "client"
    /\ result' = NoResult
    /\ outcome' = "pending"
    /\ ext' = NoExt
    /\ UNCHANGED ws

\* faults: the I/O points at which a fault may be injected; track: whether
\* the reference map is kept.  An injected fault is raised before any of the
\* content reaches the file, so one content stands for all of them there.
InvokeCreateFile(faults, track) ==
    /\ pc = "idle"
    /\ \E fn \in Filenames, c \in Contents, f \in faults :
           /\ f # "none" => c = <<>>
           /\ Run([content |-> c, fault |-> f, tool |-> "create_file", arg |-> fn],
                  FALSE, track)

InvokeReadFile(faults, track) ==
    /\ pc = "idle"
    /\ \E fn \in Filenames, f \in faults :
           Run([content |-> <<>>, fault |-> f, tool |-> "read_file", arg |-> fn],
               FALSE, track)

InvokeListFiles(faults, track) ==
    /\ pc = "idle"
    /\ \E f \in faults :
           Run([content |-> <<>>, fault |-> f, tool |-> "list_files", arg |-> ""],
               FALSE, track)

InvokeDeleteFile(faults, track) ==
    /\ pc = "idle"
    /\ \E fn \in Filenames, f \in faults :
           Run([content |-> <<>>, fault |-> f, tool |-> "delete_file", arg |-> fn],
               FALSE, track)

InvokeProcessJsonData ==
    /\ pc = "idle"
    /\ \E s \in JsonStrings :
           Run([content |-> <<>>, fault |-> "none", tool |-> "process_json_data",
                arg |-> s], FALSE, FALSE)

InvokeGetWeather ==
    /\ pc = "idle"
    /\ \E city \in Cities :
           Start([content |-> <<>>, fault |-> "none", tool |-> "get_weather",
                  arg |-> city], FALSE)

InvokeGetRandomQuote ==
    /\ pc = "idle"
    /\ Start([content |-> <<>>, fault |-> "none", tool |-> "get_random_quote",
              arg |-> ""], FALSE)

\* The same tool again with the same arguments, directly after a first
\* invocation that met no fault returned.
Reinvoke ==
    /\ outcome = "returned"
    /\ ~Faulted
    /\ \/ call.tool \in SyncTools /\ Run(call, TRUE, FALSE)
       \/ call.tool \in ExternalTools /\ Start(call, TRUE)

frame == <<ws, call, ws0, ref, prev, concVars, jsonVars>>

\* An exception of class e inside the try block; x is the bookkeeping so far.
LiveRaise(e, x) ==
    IF IsException(e)
    THEN /\ pc' = OnLiveFault
         /\ ext' = [x EXCEPT !.exc = TRUE, !.body = ""]
         /\ UNCHANGED <<result, outcome>>
    ELSE /\ pc' = "idle"
         /\ ext' = [x EXCEPT !.exc = TRUE]
         /\ outcome' = "raised"
         /\ UNCHANGED result

Return(r, via) ==
    /\ result' = r
    /\ outcome' = "returned"
    /\ pc' = "idle"
    /\ ext' = [ext EXCEPT !.via = via, !.body = ""]

\* async with httpx.AsyncClient() as client
ClientOpen ==
    /\ pc = "client"
    /\ \/ pc' = "request" /\ UNCHANGED <<ext, result, outcome>>
       \/ LiveRaise("HTTPError", ext)
    /\ UNCHANGED frame

\* response = await client.get(url, ...)
Request ==
    /\ pc = "request"
    /\ LET x == [ext EXCEPT !.live = @ + 1] IN
       \/ \E s \in HttpStatuses : \E b \in Bodies(s) :
             /\ ext' = [x EXCEPT !.status = s, !.body = b]
             /\ pc' = "response"
             /\ UNCHANGED <<result, outcome>>
       \/ LiveRaise("HTTPError", x)
    /\ UNCHANGED frame

\* The status test, response.json(), the dictionary, and the client's close.
Response ==
    /\ pc = "response"
    /\ \/ ext.status = HttpOk /\ ext.body = "ok"
             /\ Return(LiveResult(call.tool), "live")
       \/ ext.status = HttpOk /\ ext.body = "not_json"
             /\ LiveRaise("JSONDecodeError", ext)
       \/ ext.status = HttpOk /\ ext.body = "bad_shape"
             /\ LiveRaise("AttributeError", ext)
       \/ ext.status # HttpOk
             /\ Return(ApiError(call.tool, ext.status), "live")
       \/ LiveRaise("HTTPError", ext)
    /\ UNCHANGED frame

\* except Exception: return the mock data
Fallback ==
    /\ pc = "fallback"
    /\ \E selected \in FallbackQuotes :
          /\ result' = FallbackResult(call.tool, call.arg, selected)
          /\ outcome' = "returned"
          /\ pc' = "idle"
          /\ ext' = [ext EXCEPT !.fb = @ + 1, !.via = "fallback"]
    /\ UNCHANGED frame

Procs == 1..NProcs

Init ==
    /\ ws = EmptyWorkspace
    /\ pc = "idle"
    /\ call = NoCall
    /\ result = NoResult
    /\ outcome = "none"
    /\ ws0 = EmptyWorkspace
    /\ ref = EmptyWorkspace
    /\ prev = NoPrev
    /\ ext = NoExt
    /\ cpc = [p \in Procs |-> "off"]
    /\ ccall = [p \in Procs |-> NoCall]
    /\ cres = [p \in Procs |-> NoResult]
    /\ cbuf = [p \in Procs |-> <<>>]
    /\ cfd = [p \in Procs |-> FALSE]
    /\ cws0 = EmptyWorkspace
    /\ jv = Scalar
    /\ jpc = "off"
    /\ jres = 0

Next ==
    \/ InvokeCreateFile(CreateFaults, FALSE)
    \/ InvokeReadFile(ReadFaults, FALSE)
    \/ InvokeListFiles(ListFaults, FALSE)
    \/ InvokeDeleteFile(DeleteFaults, FALSE)
    \/ InvokeProcessJsonData
    \/ InvokeGetWeather
    \/ InvokeGetRandomQuote
    \/ Reinvoke
    \/ ClientOpen
    \/ Request
    \/ Response
    \/ Fallback

Spec == Init /\ [][Next]_vars

FileNext ==
    \/ InvokeCreateFile(NoFaults, TRUE)
    \/ InvokeReadFile(NoFaults, TRUE)
    \/ InvokeListFiles(NoFaults, TRUE)
    \/ InvokeDeleteFile(NoFaults, TRUE)

FileSpec == Init /\ [][FileNext]_vars

(***************************************************************************)
(* ConcSpec: NProcs callers, each invoking one of create_file, read_file   *)
(* and delete_file; a step is one file-system call of a handler, and the   *)
(* steps of different callers interleave.  A call that fails raises, and   *)
(* the handler's except clause returns its dictionary.                     *)
(***************************************************************************)
ConcTools == {"create_file", "read_file", "delete_file"}

\* The workspace when the callers start: empty, or holding file "a".
ConcWorkspaces == {EmptyWorkspace, [EmptyWorkspace EXCEPT !["a"] = <<"x">>]}

Handled(body, handled) == TryExcept(body, handled).result

CReturn(p, r) ==
    /\ cres' = [cres EXCEPT ![p] = r]
    /\ cpc' = [cpc EXCEPT ![p] = "done"]

CInvoke(p) ==
    /\ cpc[p] = "idle"
    /\ \E t \in ConcTools, fn \in Filenames, c \in Contents :
          /\ t # "create_file" => c = <<>>
          /\ ccall' = [ccall EXCEPT ![p] =
                          [content |-> c, fault |-> "none", tool |-> t, arg |-> fn]]
    /\ cpc' = [cpc EXCEPT ![p] = "exists"]
    /\ UNCHANGED <<ws, cres, cbuf, cfd, cws0, seqVars, jsonVars>>

\* file_path.exists() and the return that follows it
CExists(p) ==
    /\ cpc[p] = "exists"
    /\ LET path == Resolve(ccall[p].arg) IN
       \/ /\ ccall[p].tool = "create_file"
          /\ IF PathExists(ws, path)
             THEN CReturn(p, AlreadyExists(path))
             ELSE cpc' = [cpc EXCEPT ![p] = "open"] /\ UNCHANGED cres
       \/ /\ ccall[p].tool = "read_file"
          /\ IF ~PathExists(ws, path)
             THEN CReturn(p, DoesNotExist)
             ELSE cpc' = [cpc EXCEPT ![p] = "read"] /\ UNCHANGED cres
       \/ /\ ccall[p].tool = "delete_file"
          /\ IF ~PathExists(ws, path)
             THEN CReturn(p, DoesNotExist)
             ELSE cpc' = [cpc EXCEPT ![p] = "unlink"] /\ UNCHANGED cres
    /\ UNCHANGED <<ws, ccall, cbuf, cfd, cws0, seqVars, jsonVars>>

\* open(file_path, 'w', encoding='utf-8')
COpen(p) ==
    /\ cpc[p] = "open"
    /\ ws' = OpenWrite(ws, Resolve(ccall[p].arg))
    /\ cfd' = [cfd EXCEPT ![p] = TRUE]
    /\ cpc' = [cpc EXCEPT ![p] = "write"]
    /\ UNCHANGED <<ccall, cres, cbuf, cws0, seqVars, jsonVars>>

\* f.write(content), the close, and the return.  A file unlinked since the
\* open takes the bytes without reappearing in the directory.
CWrite(p) ==
    /\ cpc[p] = "write"
    /\ LET path == Resolve(ccall[p].arg)
           content == ccall[p].content IN
       IF Encodable(content)
       THEN /\ ws' = IF cfd[p] THEN WriteText(ws, path, content) ELSE ws
            /\ CReturn(p, Created(path, content))
       ELSE /\ CReturn(p, Handled(Raise(ws, "UnicodeEncodeError"), CreateFailed))
            /\ UNCHANGED ws
    /\ UNCHANGED <<ccall, cbuf, cfd, cws0, seqVars, jsonVars>>

\* open(file_path, 'r', encoding='utf-8') and content = f.read()
CRead(p) ==
    /\ cpc[p] = "read"
    /\ LET path == Resolve(ccall[p].arg) IN
       IF path = WorkDir
       THEN /\ CReturn(p, Handled(Raise(ws, "IsADirectoryError"), ReadFailed))
            /\ UNCHANGED cbuf
       ELSE IF ws[path] = Absent
       THEN /\ CReturn(p, Handled(Raise(ws, "FileNotFoundError"), ReadFailed))
            /\ UNCHANGED cbuf
       ELSE /\ cbuf' = [cbuf EXCEPT ![p] = ReadTranslate(ws[path])]
            /\ cpc' = [cpc EXCEPT ![p] = "stat"]
            /\ UNCHANGED cres
    /\ UNCHANGED <<ws, ccall, cfd, cws0, seqVars, jsonVars>>

\* file_path.stat() in the dictionary, and the return
CStat(p) ==
    /\ cpc[p] = "stat"
    /\ IF ws[Resolve(ccall[p].arg)] = Absent
       THEN CReturn(p, Handled(Raise(ws, "FileNotFoundError"), ReadFailed))
       ELSE CReturn(p, ReadOk(ccall[p].arg, cbuf[p]))
    /\ UNCHANGED <<ws, ccall, cbuf, cfd, cws0, seqVars, jsonVars>>

\* file_path.unlink() and the return
CUnlink(p) ==
    /\ cpc[p] = "unlink"
    /\ LET path == Resolve(ccall[p].arg) IN
       IF path = WorkDir
       THEN /\ CReturn(p, Handled(Raise(ws, "IsADirectoryError"), DeleteFailed))
            /\ UNCHANGED <<ws, cfd>>
       ELSE IF ws[path] = Absent
       THEN /\ CReturn(p, Handled(Raise(ws, "FileNotFoundError"), DeleteFailed))
            /\ UNCHANGED <<ws, cfd>>
       ELSE /\ ws' = Unlink(ws, path)
            /\ cfd' = [q \in Procs |->
                          cfd[q] /\ ~(cpc[q] = "write"
                                        /\ Resolve(ccall[q].arg) = path)]
            /\ CReturn(p, Deleted)
    /\ UNCHANGED <<ccall, cbuf, cws0, seqVars, jsonVars>>

ConcInit ==
    /\ ws \in ConcWorkspaces
    /\ cws0 = ws
    /\ cpc = [p \in Procs |-> "idle"]
    /\ ccall = [p \in Procs |-> NoCall]
    /\ cres = [p \in Procs |-> NoResult]
    /\ cbuf = [p \in Procs |-> <<>>]
    /\ cfd = [p \in Procs |-> FALSE]
    /\ pc = "idle"
    /\ call = NoCall
    /\ result = NoResult
    /\ outcome = "none"
    /\ ws0 = EmptyWorkspace
    /\ ref = EmptyWorkspace
    /\ prev = NoPrev
    /\ ext = NoExt
    /\ jv = Scalar
    /\ jpc = "off"
    /\ jres = 0

ConcNext ==
    \E p \in Procs :
        \/ CInvoke(p)
        \/ CExists(p)
        \/ COpen(p)
        \/ CWrite(p)
        \/ CRead(p)
        \/ CStat(p)
        \/ CUnlink(p)

ConcSpec == ConcInit /\ [][ConcNext]_vars

(***************************************************************************)
(* JsonSpec: _count_nested_levels(data) as process_json_data calls it, on  *)
(* every JSON value of at most MaxNodes nodes.                             *)
(***************************************************************************)
JsonInit ==
    /\ jv \in JsonValues
    /\ jpc = "start"
    /\ jres = 0
    /\ ws = EmptyWorkspace
    /\ pc = "idle"
    /\ call = NoCall
    /\ result = NoResult
    /\ outcome = "none"
    /\ ws0 = EmptyWorkspace
    /\ ref = EmptyWorkspace
    /\ prev = NoPrev
    /\ ext = NoExt
    /\ cpc = [p \in Procs |-> "off"]
    /\ ccall = [p \in Procs |-> NoCall]
    /\ cres = [p \in Procs |-> NoResult]
    /\ cbuf = [p \in Procs |-> <<>>]
    /\ cfd = [p \in Procs |-> FALSE]
    /\ cws0 = EmptyWorkspace

\* "nested_levels": _count_nested_levels(data)
JsonCount ==
    /\ jpc = "start"
    /\ jres' = CountNestedLevels(jv, 0)
    /\ jpc' = "done"
    /\ UNCHANGED <<jv, ws, seqVars, concVars>>

JsonNext == JsonCount

JsonSpec == JsonInit /\ [][JsonNext]_vars

(***************************************************************************)
(* The claims.                                                             *)
(***************************************************************************)
Returned == pc = "idle" /\ outcome = "returned"

HasError == "error" \in DOMAIN result

\* C1: every invocation is total: whatever the arguments and whatever fault
\* is raised during the call, no exception reaches the caller, and a finished
\* invocation has returned a result dictionary.
C1_Total ==
    /\ outcome # "raised"
    /\ (pc = "idle" /\ call.tool # "none")
          => (outcome = "returned" /\ "success" \in DOMAIN result)

\* An invocation during which a fault was raised, and which returned.
C1_Witness == Returned /\ Faulted /\ "success" \in DOMAIN result

\* C2: every returned result has a boolean `success`, and has `error` exactly
\* when `success` is false.
C2_Envelope ==
    Returned =>
        /\ "success" \in DOMAIN result
        /\ result.success \in BOOLEAN
        /\ HasError <=> ~result.success

\* A lookup answered with a status other than 200 returned its error result.
C2_Witness ==
    /\ Returned
    /\ call.tool = "get_random_quote"
    /\ ext.status = 503
    /\ ~result.success
    /\ HasError

\* C3: in get_weather and get_random_quote, a fault during the live call gives
\* success = true with a `note`; a result built from an HTTP response, 200 or
\* not, has no `note`; so `note` is there exactly for the fallback's results.
C3_NoteIffFallback ==
    (Returned /\ call.tool \in ExternalTools) =>
        /\ ext.exc => (result.success /\ "note" \in DOMAIN result)
        /\ ext.via = "live" => "note" \notin DOMAIN result
        /\ "note" \in DOMAIN result <=> ext.via = "fallback"

\* A 200 response arrived, its body could not be used, the fallback answered.
C3_Witness ==
    /\ Returned
    /\ call.tool = "get_weather"
    /\ ext.status = HttpOk
    /\ ext.exc
    /\ "note" \in DOMAIN result

\* C4, as claimed: whenever the live lookup fails, by a fault or by a status
\* other than 200, the tool returns mock data with success = true.
C4_MockOnEveryFailure ==
    (Returned /\ call.tool \in ExternalTools
        /\ (ext.exc \/ ext.status \notin {0, HttpOk})) =>
        /\ result.success
        /\ \E q \in FallbackQuotes : result = FallbackResult(call.tool, call.arg, q)

\* C5: within one invocation the live request is attempted at most once and
\* the fallback at most once; once in the fallback, the next step returns the
\* result without another request and without a second fallback.
C5_AtMostOnce ==
    /\ [](ext.live <= 1 /\ ext.fb <= 1)
    /\ [][pc = "fallback" =>
             (pc' = "idle" /\ outcome' = "returned"
                 /\ ext'.live = ext.live /\ ext'.fb = 1)]_vars

\* A request raised, and the fallback returned.
C5_Witness ==
    /\ Returned
    /\ call.tool \in ExternalTools
    /\ ext.live = 1
    /\ ext.fb = 1
    /\ ext.via = "fallback"

Orders == {o \in [1..NProcs -> Procs] : \A i, j \in 1..NProcs : o[i] = o[j] => i = j}

RECURSIVE SeqRun(_, _, _)
\* The callers' invocations run one after another in the given order, from
\* workspace w: the final workspace and each caller's `success`.
SeqRun(order, w, acc) ==
    IF order = <<>> THEN [ws |-> w, success |-> acc]
    ELSE LET p == Head(order)
             r == RunTool(w, ccall[p]) IN
         SeqRun(Tail(order), r.ws, [acc EXCEPT ![p] = r.result.success])

\* C6, as claimed: whatever the interleaving of the callers' steps, each
\* invocation's `success` and the final workspace are those of some
\* sequential execution of the same invocations.
C6_Serializable ==
    (\A p \in Procs : cpc[p] = "done") =>
        \E o \in Orders :
            LET r == SeqRun(o, cws0, [p \in Procs |-> FALSE]) IN
            /\ r.ws = ws
            /\ \A p \in Procs : r.success[p] = cres[p].success

\* C7, as claimed: a tool invoked twice in a row with the same arguments and
\* no fault gives the same `success` and the same presence of `error`.
C7_Idempotent ==
    (Returned /\ prev.rep /\ ~Faulted) =>
        /\ result.success = prev.success
        /\ HasError = prev.error

\* C7, amended: the repeated invocation is executed again; for create_file
\* and delete_file it returns success = false with an error whatever the first
\* returned; for the other five tools it returns the same `success` and the
\* same presence of `error` (an external lookup, when the service answers
\* with the same status).
C7_RepeatedInvocation ==
    (Returned /\ prev.rep /\ ~Faulted) =>
        /\ call.tool \in {"create_file", "delete_file"}
              => (~result.success /\ HasError)
        /\ call.tool \in {"read_file", "list_files", "process_json_data"}
              => (result.success = prev.success /\ HasError = prev.error)
        /\ call.tool \in ExternalTools
              => /\ ext.live = 1
                 /\ ext.status = prev.status
                       => (result.success = prev.success /\ HasError = prev.error)

\* delete_file succeeded, and the same delete_file again did not.
C7_Witness ==
    /\ Returned
    /\ prev.rep
    /\ call.tool = "delete_file"
    /\ prev.success
    /\ ~result.success

\* C8: create_file on a name that exists returns success = false with an
\* error and leaves every file as it was; it returns success = true only when
\* the name did not exist, and then the file holds exactly `content`, every
\* other file is as it was, and size is the length of content.
C8_NoOverwrite ==
    (Returned /\ call.tool = "create_file") =>
        LET p == Resolve(call.arg) IN
        /\ (p = WorkDir \/ ws0[p] # Absent)
              => (~result.success /\ HasError /\ ws = ws0)
        /\ result.success
              => /\ p \in FilePaths
                 /\ ws0[p] = Absent
                 /\ ws = [ws0 EXCEPT ![p] = call.content]
                 /\ result.size = Len(call.content)

\* create_file with other content on a file that exists: refused, file kept.
C8_Witness ==
    /\ Returned
    /\ call.tool = "create_file"
    /\ call.arg = "./a"
    /\ ws0["a"] = <<"x">>
    /\ call.content = <<"CR">>
    /\ call.fault = "none"
    /\ ~result.success
    /\ ws["a"] = <<"x">>

\* C9, as claimed: in a fault-free sequence of file tool invocations the
\* workspace agrees with the reference map: read_file(f) succeeds with content
\* c exactly when the last successful create_file or delete_file on f was
\* create_file(f, c); delete_file(f) succeeds exactly when f is present, and
\* removes only f; read_file and list_files change nothing; list_files counts
\* the files present.
C9_RefinesReferenceMap ==
    Returned =>
        LET p == Resolve(call.arg)
            present == p \in FilePaths /\ ref[p] # Absent IN
        /\ \A q \in FilePaths : ws[q] = RefNow[q]
        /\ call.tool = "read_file"
              => IF present
                 THEN result.success /\ result.content = ref[p]
                 ELSE ~result.success
        /\ call.tool = "delete_file"
              => /\ result.success <=> present
                 /\ ws = IF present THEN [ws0 EXCEPT ![p] = Absent] ELSE ws0
        /\ call.tool \in {"read_file", "list_files"} => ws = ws0
        /\ call.tool = "list_files"
              => /\ result.success
                 /\ result.count = Cardinality({q \in FilePaths : ref[q] # Absent})

RECURSIVE RefLevels(_)
\* 0 for a scalar and for an empty container, else 1 + the members' maximum.
RefLevels(v) ==
    IF v.kind = "scalar" \/ v.items = <<>> THEN 0
    ELSE 1 + Max({RefLevels(v.items[i]) : i \in 1..Len(v.items)})

RECURSIVE EnclosingCounts(_, _)
\* For each value inside v, v included, the number of containers around it,
\* given that d containers are around v.
EnclosingCounts(v, d) ==
    {d} \cup UNION {EnclosingCounts(v.items[i], d + 1) : i \in 1..Len(v.items)}

\* C10: _count_nested_levels is 0 for a scalar and for an empty container,
\* 1 + the maximum over the members for a non-empty container; that is, the
\* largest number of (non-empty) containers around any one value.
C10_NestedLevels ==
    jpc = "done" =>
        /\ jres = RefLevels(jv)
        /\ jres = Max(EnclosingCounts(jv, 0))

\* An empty container two levels down: [[{}]] counts 2.
C10_Witness ==
    /\ jpc = "done"
    /\ jv = Container("list", <<Container("list", <<Container("dict", <<>>)>>)>>)
    /\ jres = 2

=============================================================================
